---- MODULE Spec2Model ----
(***************************************************************************)
(* Replicated chat over a CRDT document (src/main.rs).                     *)
(*                                                                         *)
(* Every ChatUser owns one document.  add_message commits one change to    *)
(* the caller's document and hands it out in a NetworkMessage;             *)
(* receive_message / broadcast_message deliver changes to other users;     *)
(* main reconciles two users with the generate_sync_message /              *)
(* receive_sync_message loop; get_messages reads the root map back.        *)
(*                                                                         *)
(* The document engine (change application, conflict resolution, heads,    *)
(* sync protocol) is the library called by main.rs; it is modelled from    *)
(* sections 3 and 4 of the specification.                                  *)
(***************************************************************************)
EXTENDS Integers, Sequences, FiniteSets, TLC

(***************************************************************************)
(* Bounds and program constants                                            *)
(***************************************************************************)
\* number of ChatUsers
NumUsers == 2
\* number of changes ever committed, over all users
MaxChanges == 3
\* number of distinct message ids (Uuid values) in use
MaxIds == 2
\* number of distinct message contents
MaxContents == 2
\* wall-clock timestamps 1..MaxTime
MaxTime == 2
\* the changes of other peers on the network
MaxForeign == 2

MsgIds == 1..MaxIds
Timestamps == 1..MaxTime

\* the id given to ChatUser::new
UserName == <<"user1", "user2", "user3", "user4">>
ContentText == <<"Hello, anyone there?", "Hello, anyone there??? [Edit]", "Hi! Yes, I'm here!">>
Contents == {ContentText[i] : i \in 1..MaxContents}

(***************************************************************************)
(* Uuid <-> String.  to_string writes the hyphenated lower-case form;      *)
(* parse_str accepts exactly such strings.  Strings of that form compare   *)
(* as their position in UuidText.                                          *)
(***************************************************************************)
UuidText == <<"00000000-0000-4000-8000-000000000001",
              "00000000-0000-4000-8000-000000000002",
              "00000000-0000-4000-8000-000000000003">>

\* Uuid::to_string
to_string(u) == UuidText[u]

\* is this string the text of a Uuid?
IsUuidText(s) == \E u \in 1..Len(UuidText) : UuidText[u] = s

\* Uuid::parse_str(..).unwrap(), defined on the strings IsUuidText accepts
parse_str(s) == CHOOSE u \in 1..Len(UuidText) : UuidText[u] = s

\* lexicographic order of the root keys, the order map_range iterates in
KeyLess(a, b) ==
    \E i, j \in 1..Len(UuidText) : UuidText[i] = a /\ UuidText[j] = b /\ i < j

(***************************************************************************)
(* Operations and changes                                                  *)
(***************************************************************************)
\* the root object id
ROOT == <<0, 0>>

\* operation ids compared by actor first
OpIdLess_actor(a, b) == a[2] < b[2] \/ (a[2] = b[2] /\ a[1] < b[1])

\* operation ids are (counter, actor), compared counter first
OpIdLess(a, b) == a[1] < b[1] \/ (a[1] = b[1] /\ a[2] < b[2])

\* scalar values and the map object value
StrValue(s) == [t |-> "str", s |-> s, n |-> 0]
UintValue(n) == [t |-> "uint", s |-> "", n |-> n]
MapValue == [t |-> "map", s |-> "", n |-> 0]

\* a change is identified by its hash, a function of its contents; one actor
\* never makes two changes with one sequence number
Hash(c) == <<c.actor, c.seq>>

\* struct ChatMessage
ChatMessage(id, user_id, content, timestamp) ==
    [id |-> id, user_id |-> user_id, content |-> content, timestamp |-> timestamp]

\* an empty document: the changes applied, in the order they were applied,
\* the changes waiting for a dep, the heads, the operations and the greatest
\* operation counter
NewDoc == [history |-> <<>>, queue |-> {}, heads |-> {}, ops |-> {}, max_op |-> 0]

\* ChatUser::new
NewChatUser(user_id) == [id |-> user_id, doc |-> NewDoc]

VARIABLES
    users,      \* users[u]: the ChatUser u (its id and its document)
    net,        \* the NetworkMessages made so far, each deliverable any number of times
    pool,       \* what the callers may send: the ChatMessage values (id, content,
                \* timestamp) and the number of add_message calls
    delivered,  \* delivered[u]: every change handed to u's document so far, by
                \* its own commits, receive_message or receive_sync_message
    sync        \* main's sync loop: its position, the two peers a and b, their
                \* sync states, the results of the last two generate calls, the
                \* iterations run, the hashes the loop has moved so far, and
                \* what the loop started from: get_messages of a and of b, and
                \* whether b's document was empty

vars == <<users, net, pool, delivered, sync>>

(***************************************************************************)
(* Document store                                                          *)
(***************************************************************************)
\* the operations at (obj, key) that no applied operation has overwritten
Visible(doc, obj, key) ==
    {o \in doc.ops : o.obj = obj /\ o.key = key /\ o.succ = {}}

\* the winner among conflicting operations: the greatest (counter, actor)
Winner(S) == CHOOSE o \in S : \A p \in S : p.id = o.id \/ OpIdLess(p.id, o.id)

\* is id a map object of the document?
IsObject(doc, id) ==
    id = ROOT \/ \E o \in doc.ops : o.id = id /\ o.action = "makeMap"

\* doc.get(obj, key): "err" when obj is no object, "none" when the key has
\* no value, else the winning value and its id
get(doc, obj, key) ==
    IF ~IsObject(doc, obj) THEN [r |-> "err", value |-> MapValue, id |-> ROOT]
    ELSE IF Visible(doc, obj, key) = {} THEN [r |-> "none", value |-> MapValue, id |-> ROOT]
    ELSE LET w == Winner(Visible(doc, obj, key))
         IN [r |-> "some", value |-> w.value, id |-> w.id]

\* the keys of the root map that have a value
RootKeys(doc) == {o.key : o \in {p \in doc.ops : p.obj = ROOT /\ p.succ = {}}}

RECURSIVE SortKeys(_)
\* a set of keys as a sequence in lexicographic order
SortKeys(S) ==
    IF S = {} THEN <<>>
    ELSE LET k == CHOOSE x \in S : \A y \in S : y = x \/ KeyLess(x, y)
         IN <<k>> \o SortKeys(S \ {k})

\* doc.map_range(ROOT, ..): the entries of the root map in key order
map_range(doc) ==
    LET ks == SortKeys(RootKeys(doc))
    IN [i \in 1..Len(ks) |->
          LET w == Winner(Visible(doc, ROOT, ks[i]))
          IN [key |-> ks[i], value |-> w.value, id |-> w.id]]

\* InsertOp that lets the operation overwrite whatever is visible at its key
InsertOp_arrival(ops, op) ==
    {IF o.obj = op.obj /\ o.key = op.key /\ o.succ = {}
        THEN [o EXCEPT !.succ = @ \cup {op.id}] ELSE o : o \in ops}
        \cup {[id |-> op.id, obj |-> op.obj, key |-> op.key, action |-> op.action,
               value |-> op.value, pred |-> op.pred, succ |-> {}]}

\* insert one operation: mark the operations it overwrites, then add it
InsertOp(ops, op) ==
    {IF o.id \in op.pred THEN [o EXCEPT !.succ = @ \cup {op.id}] ELSE o : o \in ops}
        \cup {[id |-> op.id, obj |-> op.obj, key |-> op.key, action |-> op.action,
               value |-> op.value, pred |-> op.pred, succ |-> {}]}

RECURSIVE InsertOps(_, _)
InsertOps(ops, seq) ==
    IF seq = <<>> THEN ops ELSE InsertOps(InsertOp(ops, Head(seq)), Tail(seq))

\* the changes in the document's history
Applied(doc) == {doc.history[i] : i \in 1..Len(doc.history)}

\* the hashes of the changes in the document's history
HistoryHashes(doc) == {Hash(doc.history[i]) : i \in 1..Len(doc.history)}

\* a change is causally ready when all its deps are in the history
is_causally_ready(doc, c) == c.deps \subseteq HistoryHashes(doc)

Max(a, b) == IF a >= b THEN a ELSE b

\* apply one causally ready change: its operations, the history, the heads
apply_change(doc, c) ==
    [doc EXCEPT
        !.ops = InsertOps(@, c.ops),
        !.history = Append(@, c),
        !.heads = (@ \ c.deps) \cup {Hash(c)},
        !.max_op = Max(@, c.start_op + Len(c.ops) - 1)]

RECURSIVE drain_queue(_)
\* apply the queued changes that have become causally ready
drain_queue(doc) ==
    IF \E c \in doc.queue : is_causally_ready(doc, c)
    THEN LET c == CHOOSE x \in doc.queue : is_causally_ready(doc, x)
             d == [doc EXCEPT !.queue = @ \ {c}]
         IN drain_queue(IF Hash(c) \in HistoryHashes(d) THEN d ELSE apply_change(d, c))
    ELSE doc

\* doc.apply_changes(vec![c]): a known hash is a no-op, a change with a
\* missing dep is queued, and the queue is retried after every application
apply_changes(doc, c) ==
    drain_queue(
        IF Hash(c) \in HistoryHashes(doc) THEN doc
        ELSE IF is_causally_ready(doc, c) THEN apply_change(doc, c)
        ELSE [doc EXCEPT !.queue = @ \cup {c}])

\* apply_changes refuses a change whose hash is unknown while its actor has
\* already that many changes in the history
duplicate_seq(doc, c) ==
    Cardinality({x \in Applied(doc) : x.actor = c.actor}) >= c.seq

\* the Result of doc.apply_changes(vec![c])
apply_changes_result(doc, c) ==
    IF Hash(c) \notin HistoryHashes(doc) /\ duplicate_seq(doc, c) THEN "Err" ELSE "Ok"

(***************************************************************************)
(* Sync engine                                                             *)
(***************************************************************************)
\* Option<Vec<..>> fields of the peer state
None == [some |-> FALSE, v |-> {}]
Some(v) == [some |-> TRUE, v |-> v]

\* sync::State::new()
NewState ==
    [shared_heads |-> {}, last_sent_heads |-> {}, their_heads |-> None,
     their_need |-> None, their_have |-> None, sent_hashes |-> {},
     in_flight |-> FALSE, have_responded |-> FALSE]

\* the document's change with this hash
get_change_by_hash(doc, h) == CHOOSE c \in Applied(doc) : Hash(c) = h

RECURSIVE Ancestors(_, _)
\* the given hashes that the document knows, with all their ancestors
Ancestors(doc, hs) ==
    LET known == hs \cap HistoryHashes(doc)
        up == UNION {get_change_by_hash(doc, h).deps : h \in known}
    IN IF up \subseteq known THEN known ELSE Ancestors(doc, known \cup up)

\* the changes of the document that are not among have_deps and their ancestors
get_changes(doc, have_deps) ==
    {c \in Applied(doc) : Hash(c) \notin Ancestors(doc, have_deps)}

\* the hashes the document lacks: deps of queued changes and the given
\* heads, less what is waiting in the queue
get_missing_deps(doc, heads) ==
    LET in_queue == {Hash(c) : c \in doc.queue}
        missing == {h \in (UNION {c.deps : c \in doc.queue}) \cup heads :
                        h \notin HistoryHashes(doc)}
    IN missing \ in_queue

\* the summary of local history since the last sync (an exact filter)
make_bloom_filter(doc, last_sync) ==
    [last_sync |-> last_sync, bloom |-> {Hash(c) : c \in get_changes(doc, last_sync)}]

RECURSIVE Dependents(_, _)
\* hs with every change of among that depends, directly or not, on one of hs
Dependents(among, hs) ==
    LET down == {Hash(c) : c \in {x \in among : x.deps \cap hs # {}}}
    IN IF down \subseteq hs THEN hs ELSE Dependents(among, hs \cup down)

\* the changes the peer lacks, from its summary and its explicit needs
get_changes_to_send(doc, have, need) ==
    IF have = {} THEN {c \in Applied(doc) : Hash(c) \in need}
    ELSE LET last_sync == UNION {h.last_sync : h \in have}
             changes == get_changes(doc, last_sync)
             unseen == {Hash(c) : c \in {x \in changes : \A h \in have : Hash(x) \notin h.bloom}}
             to_send == Dependents(changes, unseen)
         IN {c \in Applied(doc) : Hash(c) \in need \/ (c \in changes /\ Hash(c) \in to_send)}

\* a generate_sync_message that stays silent whenever the heads are those it
\* sent last, also on its first call
generate_sync_message_silent(doc, st) ==
    IF st.last_sent_heads = doc.heads
    THEN [some |-> FALSE,
          msg |-> [heads |-> {}, need |-> {}, have |-> {}, changes |-> {}],
          state |-> st]
    ELSE [some |-> TRUE,
          msg |-> [heads |-> doc.heads, need |-> {},
                   have |-> {[last_sync |-> {}, bloom |-> {}]}, changes |-> {}],
          state |-> [st EXCEPT !.have_responded = TRUE, !.last_sent_heads = doc.heads]]

\* generate_sync_message: the message, if any, and the peer state afterwards
generate_sync_message(doc, st) ==
    LET our_heads == doc.heads
        their_heads == IF st.their_heads.some THEN st.their_heads.v ELSE {}
        our_need == get_missing_deps(doc, their_heads)
        our_have == IF our_need \subseteq their_heads
                    THEN {make_bloom_filter(doc, st.shared_heads)} ELSE {}
        reset == /\ st.their_have.some
                 /\ \E h \in st.their_have.v : ~(h.last_sync \subseteq HistoryHashes(doc))
        changes_to_send == IF st.their_have.some /\ st.their_need.some
                           THEN get_changes_to_send(doc, st.their_have.v, st.their_need.v)
                           ELSE {}
        heads_unchanged == st.last_sent_heads = our_heads
        heads_equal == st.their_heads.some /\ st.their_heads.v = our_heads
        fresh == {c \in changes_to_send : Hash(c) \notin st.sent_hashes}
    IN  IF reset
        THEN [some |-> TRUE,
              msg |-> [heads |-> our_heads, need |-> {},
                       have |-> {[last_sync |-> {}, bloom |-> {}]}, changes |-> {}],
              state |-> st]
        ELSE IF /\ heads_unchanged /\ st.have_responded
                /\ ((heads_equal /\ changes_to_send = {}) \/ st.in_flight)
        THEN [some |-> FALSE,
              msg |-> [heads |-> {}, need |-> {}, have |-> {}, changes |-> {}],
              state |-> st]
        ELSE [some |-> TRUE,
              msg |-> [heads |-> our_heads, need |-> our_need, have |-> our_have,
                       changes |-> fresh],
              state |-> [st EXCEPT !.have_responded = TRUE,
                                   !.last_sent_heads = our_heads,
                                   !.sent_hashes = @ \cup {Hash(c) : c \in fresh},
                                   !.in_flight = TRUE]]

RECURSIVE apply_all(_, _)
\* doc.apply_changes(changes) for the changes of a sync message
apply_all(doc, changes) ==
    IF changes = {} THEN doc
    ELSE LET c == CHOOSE x \in changes : TRUE
         IN apply_all(apply_changes(doc, c), changes \ {c})

\* the shared heads after the local heads moved from old to new
advance_heads(my_old_heads, my_new_heads, our_old_shared_heads) ==
    (my_new_heads \ my_old_heads) \cup (our_old_shared_heads \cap my_new_heads)

\* the peer state after a message was received by a document that went from
\* heads before_heads to doc1: shared heads advanced, acknowledged hashes
\* dropped from sent_hashes, and the peer's heads, needs and summary recorded
ReceivedState(doc1, before_heads, st, msg) ==
    LET got == msg.changes # {}
        known_heads == msg.heads \cap HistoryHashes(doc1)
        all_known == known_heads = msg.heads
        lost == all_known /\ msg.heads = {}
        advanced == IF got THEN advance_heads(before_heads, doc1.heads, st.shared_heads)
                    ELSE st.shared_heads
        trimmed == st.sent_hashes \ Ancestors(doc1, msg.heads)
    IN [shared_heads |-> IF all_known THEN msg.heads ELSE advanced \cup known_heads,
        last_sent_heads |-> IF lost THEN {}
                            ELSE IF ~got /\ msg.heads = before_heads THEN msg.heads
                            ELSE st.last_sent_heads,
        their_heads |-> Some(msg.heads),
        their_need |-> Some(msg.need),
        their_have |-> Some(msg.have),
        sent_hashes |-> IF lost THEN {} ELSE trimmed,
        in_flight |-> IF all_known \/ trimmed = {} THEN FALSE ELSE st.in_flight,
        have_responded |-> st.have_responded]

\* receive_sync_message: the document and the peer state afterwards
receive_sync_message(doc, st, msg) ==
    CHOOSE r \in {[doc |-> doc1, state |-> ReceivedState(doc1, doc.heads, st, msg)] :
                    doc1 \in {IF msg.changes = {} THEN doc ELSE apply_all(doc, msg.changes)}} :
        TRUE

RECURSIVE apply_all_result(_, _)
\* the Result of receive_sync_message: that of applying the message's changes
apply_all_result(doc, changes) ==
    IF changes = {} THEN "Ok"
    ELSE LET c == CHOOSE x \in changes : TRUE
         IN IF apply_changes_result(doc, c) = "Err" THEN "Err"
            ELSE apply_all_result(apply_changes(doc, c), changes \ {c})

receive_sync_message_result(doc, msg) == apply_all_result(doc, msg.changes)

(***************************************************************************)
(* ChatUser                                                                *)
(***************************************************************************)
\* the one change add_message commits: put_object at the root under the
\* message id, then the four field puts into the new map
MessageChange(doc, actor, m) ==
    LET start == doc.max_op + 1
        obj == <<start, actor>>
        key == to_string(m.id)
        Op(i, o, k, a, v, p) ==
            [id |-> <<start + i, actor>>, obj |-> o, key |-> k, action |-> a,
             value |-> v, pred |-> p]
    IN [actor |-> actor,
        seq |-> Cardinality({c \in Applied(doc) : c.actor = actor}) + 1,
        start_op |-> start,
        deps |-> doc.heads,
        ops |-> << Op(0, ROOT, key, "makeMap", MapValue,
                      {o.id : o \in Visible(doc, ROOT, key)}),
                   Op(1, obj, "id", "set", StrValue(to_string(m.id)), {}),
                   Op(2, obj, "user_id", "set", StrValue(m.user_id), {}),
                   Op(3, obj, "content", "set", StrValue(m.content), {}),
                   Op(4, obj, "timestamp", "set", UintValue(m.timestamp), {}) >>]

\* struct NetworkMessage
NetworkMessage(changes) == [changes |-> changes]

\* doc.get_last_local_change(): the latest change of the document's own actor
get_last_local_change(doc, actor) ==
    LET own == {i \in 1..Len(doc.history) : doc.history[i].actor = actor}
    IN doc.history[CHOOSE i \in own : \A j \in own : j <= i]

\* add_message that hands out the first local change of the document
add_message_first(user, actor, m) ==
    CHOOSE r \in {[user |-> [user EXCEPT !.doc = d],
                   result |-> NetworkMessage(
                        <<d.history[CHOOSE i \in 1..Len(d.history) :
                                        d.history[i].actor = actor
                                        /\ d.history[i].seq = 1]>>)] :
                        d \in {apply_change(user.doc,
                                            MessageChange(user.doc, actor, m))}} : TRUE

\* ChatUser::add_message: the user after the commit, and the NetworkMessage
\* returned, which holds the last local change
add_message(user, actor, m) ==
    CHOOSE r \in {[user |-> [user EXCEPT !.doc = d],
                   result |-> NetworkMessage(<<get_last_local_change(d, actor)>>)] :
                        d \in {apply_change(user.doc,
                                            MessageChange(user.doc, actor, m))}} : TRUE

RECURSIVE receive_message_eager(_, _)
\* receive_message that applies every change at once, ready or not
receive_message_eager(user, changes) ==
    IF changes = <<>> THEN user
    ELSE receive_message_eager(
            [user EXCEPT !.doc = IF Hash(Head(changes)) \in HistoryHashes(@) THEN @
                                 ELSE apply_change(@, Head(changes))],
            Tail(changes))

RECURSIVE receive_message_strict(_, _)
\* receive_message that refuses a change with a missing dep instead of keeping it
receive_message_strict(user, changes) ==
    IF changes = <<>> THEN user
    ELSE receive_message_strict(
            [user EXCEPT !.doc = IF is_causally_ready(@, Head(changes))
                                 THEN apply_changes(@, Head(changes)) ELSE @],
            Tail(changes))

RECURSIVE receive_message_again(_, _)
\* receive_message that does not recognise a change it has already applied
receive_message_again(user, changes) ==
    IF changes = <<>> THEN user
    ELSE receive_message_again(
            [user EXCEPT !.doc = IF is_causally_ready(@, Head(changes))
                                 THEN drain_queue(apply_change(@, Head(changes)))
                                 ELSE apply_changes(@, Head(changes))],
            Tail(changes))

RECURSIVE receive_message(_, _)
\* ChatUser::receive_message: apply each change of the message in turn
receive_message(user, changes) ==
    IF changes = <<>> THEN user
    ELSE receive_message([user EXCEPT !.doc = apply_changes(@, Head(changes))],
                         Tail(changes))

RECURSIVE receive_message_result_conflict(_, _)
\* a receive_message that reports a write to a root key that holds a value
\* the change has not seen
receive_message_result_conflict(user, changes) ==
    IF changes = <<>> THEN "Ok"
    ELSE IF \/ apply_changes_result(user.doc, Head(changes)) = "Err"
            \/ \E o \in Visible(user.doc, ROOT, Head(changes).ops[1].key) :
                    /\ o.id \notin Head(changes).ops[1].pred
                    /\ o.id # Head(changes).ops[1].id
         THEN "Err"
         ELSE receive_message_result_conflict(
                [user EXCEPT !.doc = apply_changes(@, Head(changes))], Tail(changes))

RECURSIVE receive_message_result(_, _)
\* the Result receive_message returns: the first Err of apply_changes, by
\* the ? operator, or Ok(())
receive_message_result(user, changes) ==
    IF changes = <<>> THEN "Ok"
    ELSE IF apply_changes_result(user.doc, Head(changes)) = "Err" THEN "Err"
         ELSE receive_message_result(
                [user EXCEPT !.doc = apply_changes(@, Head(changes))], Tail(changes))

\* an iteration that unwraps every field: an entry without a scalar under
\* one of the four keys fails the call
ReadEntry_unwrap(doc, entry) ==
    LET user_id == get(doc, entry.id, "user_id")
        content == get(doc, entry.id, "content")
        id == get(doc, entry.id, "id")
        timestamp == get(doc, entry.id, "timestamp")
        Str(g) == g.r = "some" /\ g.value.t = "str"
    IN  IF Str(user_id) /\ Str(content) /\ Str(id) /\ IsUuidText(id.value.s)
           /\ timestamp.r = "some" /\ timestamp.value.t = "uint"
        THEN [r |-> "push",
              msg |-> ChatMessage(parse_str(id.value.s), user_id.value.s,
                                  content.value.s, timestamp.value.n)]
        ELSE [r |-> "panic"]

\* one iteration of the loop of get_messages: the entry is skipped, makes the
\* call panic, or yields a ChatMessage
ReadEntry(doc, entry) ==
    LET user_id == get(doc, entry.id, "user_id")
        content == get(doc, entry.id, "content")
        id == get(doc, entry.id, "id")
        timestamp == get(doc, entry.id, "timestamp")
        Scalar(g) == g.r = "some" /\ g.value.t # "map"
    IN  IF ~Scalar(user_id) THEN [r |-> "skip"]
        ELSE IF user_id.value.t # "str" THEN [r |-> "panic"]
        ELSE IF ~Scalar(content) THEN [r |-> "skip"]
        ELSE IF content.value.t # "str" THEN [r |-> "panic"]
        ELSE IF ~Scalar(id) THEN [r |-> "skip"]
        ELSE IF id.value.t # "str" THEN [r |-> "panic"]
        ELSE IF ~Scalar(timestamp) THEN [r |-> "skip"]
        ELSE IF timestamp.value.t # "uint" THEN [r |-> "panic"]
        ELSE IF ~IsUuidText(id.value.s) THEN [r |-> "panic"]
        ELSE [r |-> "push",
              msg |-> ChatMessage(parse_str(id.value.s), user_id.value.s,
                                  content.value.s, timestamp.value.n)]

RECURSIVE CollectMessages(_, _)
\* the loop of get_messages over the entries: the messages pushed, in
\* iteration order, and whether an unwrap panicked
CollectMessages(doc, entries) ==
    IF entries = <<>> THEN [panicked |-> FALSE, messages |-> <<>>]
    ELSE LET e == ReadEntry(doc, Head(entries))
             rest == CollectMessages(doc, Tail(entries))
         IN  IF e.r = "panic" THEN [panicked |-> TRUE, messages |-> <<>>]
             ELSE IF e.r = "skip" THEN rest
             ELSE IF rest.panicked THEN rest
             ELSE [panicked |-> FALSE, messages |-> <<e.msg>> \o rest.messages]

RECURSIVE InsertSorted_replace(_, _)
\* an insertion keyed by timestamp: a message replaces the one with its timestamp
InsertSorted_replace(sorted, m) ==
    IF sorted = <<>> THEN <<m>>
    ELSE IF Head(sorted).timestamp < m.timestamp
         THEN <<Head(sorted)>> \o InsertSorted_replace(Tail(sorted), m)
         ELSE IF Head(sorted).timestamp = m.timestamp THEN <<m>> \o Tail(sorted)
         ELSE <<m>> \o sorted

RECURSIVE InsertSorted_before(_, _)
\* an insertion that is not stable: m goes before the elements with its timestamp
InsertSorted_before(sorted, m) ==
    IF sorted = <<>> THEN <<m>>
    ELSE IF Head(sorted).timestamp < m.timestamp
         THEN <<Head(sorted)>> \o InsertSorted_before(Tail(sorted), m)
         ELSE <<m>> \o sorted

RECURSIVE InsertSorted(_, _)
\* insert m after every element whose timestamp is not greater
InsertSorted(sorted, m) ==
    IF sorted = <<>> THEN <<m>>
    ELSE IF Head(sorted).timestamp <= m.timestamp
         THEN <<Head(sorted)>> \o InsertSorted(Tail(sorted), m)
         ELSE <<m>> \o sorted

\* get_messages without its sort
sort_by_nothing(msgs) == msgs

RECURSIVE sort_by_timestamp(_)
\* messages.sort_by(|a, b| a.timestamp.cmp(&b.timestamp)): a stable sort
sort_by_timestamp(msgs) ==
    IF msgs = <<>> THEN <<>>
    ELSE InsertSorted(sort_by_timestamp(SubSeq(msgs, 1, Len(msgs) - 1)), msgs[Len(msgs)])

\* ChatUser::get_messages
get_messages(user) ==
    LET got == CollectMessages(user.doc, map_range(user.doc))
    IN [panicked |-> got.panicked, messages |-> sort_by_timestamp(got.messages)]

(***************************************************************************)
(* Actions                                                                 *)
(***************************************************************************)
\* no sync loop is running
Idle ==
    [pc |-> "idle", a |-> 0, b |-> 0, sa |-> NewState, sb |-> NewState,
     two_to_one |-> FALSE, one_to_two |-> FALSE, rounds |-> 0, moved |-> {},
     start_a |-> <<>>, start_b |-> <<>>, b_empty |-> FALSE]

\* every ChatMessage a caller can build from the ids, contents and timestamps
AllMessages == [id : MsgIds, content : Contents, timestamp : Timestamps]

\* messages that differ in their id only
PlainMessages == {m \in AllMessages : m.content = ContentText[1] /\ m.timestamp = 1}

InitWith(n, messages, changes) ==
    /\ users = [u \in 1..n |-> NewChatUser(UserName[u])]
    /\ net = {}
    /\ pool = [messages |-> messages, changes |-> changes]
    /\ delivered = [u \in 1..n |-> {}]
    /\ sync = Idle

\* messages that differ in their id and content only
EditMessages == {m \in AllMessages : m.timestamp = 1}

\* NumUsers users who send any message
Init == InitWith(NumUsers, AllMessages, MaxChanges)

\* NumUsers users who send and edit messages
InitSync == InitWith(NumUsers, EditMessages, MaxChanges)

\* one user more, one change less, and messages that differ in their id only
InitRelay == InitWith(NumUsers + 1, PlainMessages, MaxChanges - 1)

Users == DOMAIN users

\* the changes of a NetworkMessage
ChangesOf(msg) == {msg.changes[i] : i \in 1..Len(msg.changes)}

\* user u sends a message: ChatMessage::new / a clone with edited content,
\* then add_message
AddMessage(u) ==
    /\ sync.pc = "idle"
    /\ Cardinality(net) < pool.changes
    /\ \E p \in pool.messages :
       \E r \in {add_message(users[u], u,
                             ChatMessage(p.id, UserName[u], p.content, p.timestamp))} :
            /\ users' = [users EXCEPT ![u] = r.user]
            /\ net' = net \cup {r.result}
            /\ delivered' = [delivered EXCEPT ![u] = @ \cup ChangesOf(r.result)]
    /\ UNCHANGED <<pool, sync>>

\* a broadcast that reaches every user, listed or not
broadcast_message_all(us, msg, targets) ==
    [u \in DOMAIN us |-> receive_message(us[u], msg.changes)]

\* broadcast_message(msg, targets): receive_message on every target in turn
broadcast_message(us, msg, targets) ==
    [u \in DOMAIN us |->
        IF u \in targets THEN receive_message(us[u], msg.changes) ELSE us[u]]

Broadcast ==
    /\ sync.pc = "idle"
    /\ \E msg \in net, targets \in (SUBSET Users) \ {{}} :
        /\ users' = broadcast_message(users, msg, targets)
        /\ delivered' = [u \in Users |->
                            IF u \in targets THEN delivered[u] \cup ChangesOf(msg)
                            ELSE delivered[u]]
    /\ UNCHANGED <<net, pool, sync>>

\* the hashes a document gained between two states
Gained(before, after) == HistoryHashes(after) \ HistoryHashes(before)

\* main, lines 170-182: both peer states are created, a generates the first
\* message, main unwraps it and b receives it
SyncStart(a, b) ==
    /\ sync.pc = "idle"
    /\ a # b
    /\ \E g \in {generate_sync_message(users[a].doc, NewState)} :
        IF g.some
        THEN \E r \in {receive_sync_message(users[b].doc, NewState, g.msg)} :
               /\ users' = [users EXCEPT ![b].doc = r.doc]
               /\ delivered' = [delivered EXCEPT ![b] = @ \cup g.msg.changes]
               /\ sync' = [Idle EXCEPT !.pc = "loop", !.a = a, !.b = b,
                                       !.sa = g.state, !.sb = r.state,
                                       !.moved = Gained(users[b].doc, r.doc),
                                       !.start_a = get_messages(users[a]).messages,
                                       !.start_b = get_messages(users[b]).messages,
                                       !.b_empty = (users[b].doc = NewDoc)]
        ELSE /\ users' = users
             /\ delivered' = delivered
             /\ sync' = [Idle EXCEPT !.pc = "panic", !.a = a, !.b = b]
    /\ UNCHANGED <<net, pool>>

\* a loop that tests is_some where main tests is_none
loop_break_some(two_to_one, one_to_two) == two_to_one /\ one_to_two

\* main, lines 199-201: leave the loop when both directions returned None
loop_break(two_to_one, one_to_two) == ~two_to_one /\ ~one_to_two

\* a loop that hands over only the messages that carry changes
deliver_sync_changes(g, doc, st) ==
    IF g.some /\ g.msg.changes # {} THEN receive_sync_message(doc, st, g.msg)
    ELSE [doc |-> doc, state |-> st]

\* if let Some(message) = generated { receiver.receive_sync_message(..) }
deliver_sync(g, doc, st) ==
    IF g.some THEN receive_sync_message(doc, st, g.msg) ELSE [doc |-> doc, state |-> st]

\* main, lines 184-202, one iteration of the loop: b generates and a receives
\* what b generated, a generates and b receives what a generated, and the
\* loop ends when neither generated a message
SyncRound ==
    /\ sync.pc = "loop"
    /\ \E g1 \in {generate_sync_message(users[sync.b].doc, sync.sb)} :
       \E r1 \in {deliver_sync(g1, users[sync.a].doc, sync.sa)} :
       \E g2 \in {generate_sync_message(r1.doc, r1.state)} :
       \E r2 \in {deliver_sync(g2, users[sync.b].doc, g1.state)} :
          /\ users' = [users EXCEPT ![sync.a].doc = r1.doc, ![sync.b].doc = r2.doc]
          /\ delivered' = [delivered EXCEPT ![sync.a] = @ \cup g1.msg.changes,
                                            ![sync.b] = @ \cup g2.msg.changes]
          /\ sync' = [sync EXCEPT
                        !.pc = IF loop_break(g1.some, g2.some) THEN "done" ELSE "loop",
                        !.sa = g2.state, !.sb = r2.state,
                        !.two_to_one = g1.some, !.one_to_two = g2.some,
                        !.rounds = @ + 1,
                        !.moved = @ \cup Gained(users[sync.a].doc, r1.doc)
                                    \cup Gained(users[sync.b].doc, r2.doc)]
    /\ UNCHANGED <<net, pool>>

\* main goes on after the loop; the peer states are not used again
SyncEnd ==
    /\ sync.pc = "done"
    /\ sync' = Idle
    /\ UNCHANGED <<users, net, pool, delivered>>

\* sending and delivering
ChatNext ==
    \/ \E u \in Users : AddMessage(u)
    \/ Broadcast

\* sending, delivering and main's sync loop
Next ==
    \/ \E u \in Users : AddMessage(u)
    \/ Broadcast
    \/ \E a, b \in Users : SyncStart(a, b)
    \/ SyncRound
    \/ SyncEnd

\* users that send any message and deliver by receive_message
Spec == Init /\ [][ChatNext]_vars

\* users that send, edit, deliver and run the sync loop, and the same with
\* one user more
SyncSpec == (InitSync \/ InitRelay) /\ [][Next]_vars

(***************************************************************************)
(* Changes of other automerge peers                                        *)
(***************************************************************************)
\* receive_message takes any NetworkMessage: the changes of a peer that is
\* no ChatUser can put anything under the root.  Each peer below made one
\* change on a fresh document.
ForeignOp(actor, i, o, k, a, v) ==
    [id |-> <<i, actor>>, obj |-> o, key |-> k, action |-> a, value |-> v, pred |-> {}]

ForeignChange(actor, ops) ==
    [actor |-> actor, seq |-> 1, start_op |-> 1, deps |-> {}, ops |-> ops]

\* a map under root key k with the given fields, made by actor
ForeignMap(actor, k, fields) ==
    ForeignChange(actor,
        <<ForeignOp(actor, 1, ROOT, k, "makeMap", MapValue)>> \o
        [i \in 1..Len(fields) |->
            ForeignOp(actor, i + 1, <<1, actor>>, fields[i][1], "set", fields[i][2])])

\* root entries that are no map or lack a field
IncompleteChanges ==
    LET a == NumUsers
    IN { ForeignChange(a + 1,
            <<ForeignOp(a + 1, 1, ROOT, UuidText[3], "set", StrValue("Hey, can I join?"))>>),
         ForeignMap(a + 2, UuidText[3],
            << <<"user_id", StrValue("user3")>>, <<"content", StrValue(ContentText[1])>> >>),
         ForeignMap(a + 3, UuidText[1],
            << <<"id", StrValue(UuidText[1])>>, <<"user_id", StrValue("user3")>>,
               <<"timestamp", UintValue(1)>> >>),
         ForeignMap(a + 4, UuidText[3],
            << <<"id", StrValue(UuidText[3])>>, <<"user_id", StrValue("user3")>>,
               <<"content", MapValue>>, <<"timestamp", UintValue(1)>> >>) }

\* root entries with a field of another type than add_message writes
MalformedChanges ==
    LET a == NumUsers
    IN { ForeignMap(a + 5, UuidText[3],
            << <<"id", StrValue(UuidText[3])>>, <<"user_id", UintValue(3)>>,
               <<"content", StrValue(ContentText[1])>>, <<"timestamp", UintValue(1)>> >>),
         ForeignMap(a + 6, UuidText[3],
            << <<"id", StrValue(UuidText[3])>>, <<"user_id", StrValue("user3")>>,
               <<"content", StrValue(ContentText[1])>>,
               <<"timestamp", StrValue("yesterday")>> >>),
         ForeignMap(a + 7, UuidText[3],
            << <<"id", StrValue("message-3")>>, <<"user_id", StrValue("user3")>>,
               <<"content", StrValue(ContentText[1])>>, <<"timestamp", UintValue(1)>> >>),
         ForeignMap(a + 8, UuidText[1],
            << <<"id", StrValue(UuidText[1])>>, <<"user_id", StrValue("user3")>>,
               <<"content", UintValue(0)>>, <<"timestamp", UintValue(1)>> >>) }

ForeignChanges == IncompleteChanges \cup MalformedChanges

\* NumUsers users, and MaxForeign changes of other peers on the network
InitForeign ==
    \E F \in SUBSET ForeignChanges :
        /\ Cardinality(F) = MaxForeign
        /\ users = [u \in 1..NumUsers |-> NewChatUser(UserName[u])]
        /\ net = {NetworkMessage(<<f>>) : f \in F}
        /\ pool = [messages |-> PlainMessages, changes |-> MaxForeign + 1]
        /\ delivered = [u \in 1..NumUsers |-> {}]
        /\ sync = Idle

\* users that send and deliver their own messages and the changes of other peers
ForeignSpec == InitForeign /\ [][ChatNext]_vars

(***************************************************************************)
(* Properties                                                              *)
(***************************************************************************)
\* what get_messages returns on user u
Messages(u) == get_messages(users[u]).messages

\* the ids of the operations of a change
OpIds(c) == {c.ops[i].id : i \in 1..Len(c.ops)}

\* the root entries get_messages reads on u were created by these changes
ShownChanges(u) ==
    {c \in Applied(users[u].doc) :
        \E i \in 1..Len(map_range(users[u].doc)) : map_range(users[u].doc)[i].id \in OpIds(c)}

\* C1: once main's sync loop between a and b has ended (both directions
\* returned None in one iteration), get_messages returns the same entries in
\* the same order on a and on b.
C1_Convergence ==
    sync.pc = "done" => get_messages(users[sync.a]) = get_messages(users[sync.b])

\* the loop has ended after moving changes, and the peers show two messages
C1_Witness ==
    /\ sync.pc = "done"
    /\ sync.moved # {}
    /\ Len(Messages(sync.a)) >= 2

\* C2: the document and the result of get_messages depend only on the set
\* of changes applied, not on the order they arrived in: two users with the
\* same applied changes have the same operations, the same heads and the
\* same get_messages.
C2_OrderIndependent ==
    \A u, v \in Users :
        Applied(users[u].doc) = Applied(users[v].doc)
            => /\ users[u].doc.ops = users[v].doc.ops
               /\ users[u].doc.heads = users[v].doc.heads
               /\ get_messages(users[u]) = get_messages(users[v])

\* two users applied the same changes, by other actors too, in different orders
C2_Witness ==
    \E u, v \in Users :
        /\ Applied(users[u].doc) = Applied(users[v].doc)
        /\ users[u].doc.history # users[v].doc.history
        /\ Len(Messages(u)) >= 1

\* C3: on every user, every change applied has all its deps applied before
\* it, and every operation of the document (whatever get / map_range can
\* show) belongs to an applied change.
C3_CausalSafety ==
    \A u \in Users :
        LET h == users[u].doc.history
        IN /\ \A i \in 1..Len(h) : h[i].deps \subseteq {Hash(h[j]) : j \in 1..(i - 1)}
           /\ \A o \in users[u].doc.ops : \E i \in 1..Len(h) : o.id \in OpIds(h[i])

\* a user shows the message of another actor's change that has deps
C3_Witness ==
    \E u \in Users : \E c \in ShownChanges(u) : c.actor # u /\ c.deps # {}

\* C4: a change handed to a user is never dropped: it is applied or waits
\* in the queue; a waiting change lacks a dep, is not applied and none of
\* its operations is in the document; so a change whose deps are all
\* applied is itself applied, without being delivered again.
C4_Buffered ==
    \A u \in Users :
        /\ \A c \in delivered[u] : c \in Applied(users[u].doc) \/ c \in users[u].doc.queue
        /\ \A c \in users[u].doc.queue :
              /\ ~is_causally_ready(users[u].doc, c)
              /\ Hash(c) \notin HistoryHashes(users[u].doc)
              /\ \A o \in users[u].doc.ops : o.id \notin OpIds(c)
        /\ \A c \in delivered[u] :
              is_causally_ready(users[u].doc, c) => c \in Applied(users[u].doc)

\* a user that shows a message holds a change waiting for a dep
C4_Witness ==
    \E u \in Users : users[u].doc.queue # {} /\ Len(Messages(u)) >= 1

\* C5: receive_message with a change the user has already applied leaves
\* the user (history, heads, queue, operations, hence get_messages) as it is.
C5_Idempotent ==
    \A u \in Users : \A msg \in net :
        ChangesOf(msg) \subseteq Applied(users[u].doc)
            => receive_message(users[u], msg.changes) = users[u]

\* a user has applied its own change and a later one, so that the change
\* is no head any more when it comes back
C5_Witness ==
    \E u \in Users : \E msg \in net : \E c \in ChangesOf(msg) :
        /\ c \in Applied(users[u].doc)
        /\ c.actor = u
        /\ Hash(c) \notin users[u].doc.heads

\* the (user_id, content, timestamp) entries get_messages returns for a user
EntrySet(user) ==
    LET ms == get_messages(user).messages
    IN {<<ms[i].user_id, ms[i].content, ms[i].timestamp>> : i \in 1..Len(ms)}

\* the messages get_messages returns for a user, as a set
MessageSet(user) ==
    LET ms == get_messages(user).messages IN {ms[i] : i \in 1..Len(ms)}

\* C6 as stated: an entry (user_id, content, timestamp) that get_messages
\* returns on a user is still returned after any receive_message or
\* receive_sync_message, also when the merged change creates a container
\* under the same root key.
C6_EntriesKept ==
    [][net' = net => \A u \in Users : EntrySet(users[u]) \subseteq EntrySet(users'[u])]_vars

\* C6 amended: a message id that get_messages returns on a user is still
\* returned after any receive_message or receive_sync_message, and the entry
\* under that id is the same unless the step applied a change that creates
\* a container under that root key.
C6_IdsKept ==
    [][net' = net =>
        \A u \in Users : \A m \in MessageSet(users[u]) :
            \E m2 \in MessageSet(users'[u]) :
                /\ m2.id = m.id
                /\ m2 # m => \E c \in Applied(users'[u].doc) \ Applied(users[u].doc) :
                                c.ops[1].key = to_string(m.id)]_vars

\* a user shows a message after merging another user's change that
\* overwrote a container under a root key
C6_Witness ==
    \E u \in Users : \E o, o2 \in users[u].doc.ops :
        /\ o.obj = ROOT /\ o2.obj = ROOT
        /\ o2.id \in o.succ
        /\ o2.id[2] # u
        /\ Len(Messages(u)) >= 1

\* C7: main's sync loop ends: it runs at most two iterations more than there
\* are changes, so an iteration in which both directions return None comes
\* after finitely many.
C7_Terminates == sync.rounds <= Cardinality(net) + 2

\* a loop has ended after three iterations or more
C7_Witness == sync.pc = "done" /\ sync.rounds >= 3

\* no further generate_sync_message on either side returns a message
NothingToSend ==
    /\ ~generate_sync_message(users[sync.a].doc, sync.sa).some
    /\ ~generate_sync_message(users[sync.b].doc, sync.sb).some

\* C8 as stated: when b showed no message at the start of the loop, then
\* after the loop b shows exactly the messages a showed at the start, in
\* timestamp order, and further generate_sync_message calls return None.
C8_NoMessages ==
    (sync.pc = "done" /\ sync.start_b = <<>>)
        => Messages(sync.b) = sync.start_a /\ NothingToSend

\* C8 amended: when b's document held no change, applied or waiting, at the
\* start of the loop, then after the loop b shows exactly the messages a
\* showed at the start, in timestamp order, and further
\* generate_sync_message calls return None.
C8_EmptyPeer ==
    (sync.pc = "done" /\ sync.b_empty)
        => Messages(sync.b) = sync.start_a /\ NothingToSend

\* the loop has ended between an empty b and an a that showed two messages
C8_Witness ==
    /\ sync.pc = "done"
    /\ sync.b_empty
    /\ Len(sync.start_a) >= 2
    /\ sync.moved # {}

\* the ChatMessage a change of add_message was made from
MessageOf(c) ==
    ChatMessage(parse_str(c.ops[2].value.s), c.ops[3].value.s,
                c.ops[4].value.s, c.ops[5].value.n)

\* u and v each made one change on a fresh document, under different ids,
\* and each has applied its own change and the other's, and nothing else
Crossed(u, v) ==
    /\ u # v
    /\ Len(users[u].doc.history) = 2 /\ Len(users[v].doc.history) = 2
    /\ users[u].doc.history[1].actor = u /\ users[v].doc.history[1].actor = v
    /\ users[u].doc.history[2] = users[v].doc.history[1]
    /\ users[v].doc.history[2] = users[u].doc.history[1]
    /\ users[u].doc.history[1].deps = {} /\ users[v].doc.history[1].deps = {}
    /\ users[u].doc.history[1].ops[1].key # users[v].doc.history[1].ops[1].key

\* C9: after two users have each sent one message from a fresh document,
\* under different ids, and each has received the other's change,
\* get_messages returns on both exactly the two messages sent, the one with
\* the smaller timestamp first.
C9_TwoMessages ==
    \A u, v \in Users :
        Crossed(u, v) =>
            LET mu == MessageOf(users[u].doc.history[1])
                mv == MessageOf(users[v].doc.history[1])
                expected == IF mu.timestamp < mv.timestamp THEN {<<mu, mv>>}
                            ELSE IF mv.timestamp < mu.timestamp THEN {<<mv, mu>>}
                            ELSE {<<mu, mv>>, <<mv, mu>>}
            IN /\ get_messages(users[u]) = get_messages(users[v])
               /\ ~get_messages(users[u]).panicked
               /\ Messages(u) \in expected

\* the message under the greater root key has the smaller timestamp
C9_Witness ==
    \E u, v \in Users :
        /\ Crossed(u, v)
        /\ KeyLess(users[u].doc.history[1].ops[1].key, users[v].doc.history[1].ops[1].key)
        /\ MessageOf(users[u].doc.history[1]).timestamp
              > MessageOf(users[v].doc.history[1]).timestamp

\* C10: get_messages returns without failing, its entries ascend by
\* timestamp, and entries with one timestamp are in the order of their root
\* keys.
C10_Sorted ==
    \A u \in Users :
        LET got == get_messages(users[u])
            ms == got.messages
        IN /\ ~got.panicked
           /\ \A i, j \in 1..Len(ms) :
                i < j => \/ ms[i].timestamp < ms[j].timestamp
                         \/ /\ ms[i].timestamp = ms[j].timestamp
                            /\ KeyLess(to_string(ms[i].id), to_string(ms[j].id))

\* a user shows two messages with one timestamp
C10_Witness ==
    \E u \in Users :
        /\ Len(Messages(u)) >= 2
        /\ Messages(u)[1].timestamp = Messages(u)[2].timestamp

\* the four keys get_messages reads in a root entry
FieldKeys == {"user_id", "content", "id", "timestamp"}

\* what the document holds under field f of root entry e: "none" when e is
\* no map or has no scalar there, else the type of the scalar
FieldType(doc, e, f) ==
    IF e.value.t # "map" \/ Visible(doc, e.id, f) = {} THEN "none"
    ELSE IF Winner(Visible(doc, e.id, f)).value.t = "map" THEN "none"
    ELSE Winner(Visible(doc, e.id, f)).value.t

FieldValue(doc, e, f) == Winner(Visible(doc, e.id, f)).value

\* the root entry is no map, or lacks one of the four fields
Lacking(doc, e) == \E f \in FieldKeys : FieldType(doc, e, f) = "none"

\* the root entry has a field of another type than add_message writes
Malformed(doc, e) ==
    \/ FieldType(doc, e, "user_id") = "uint"
    \/ FieldType(doc, e, "content") = "uint"
    \/ FieldType(doc, e, "id") = "uint"
    \/ FieldType(doc, e, "timestamp") = "str"
    \/ FieldType(doc, e, "id") = "str" /\ ~IsUuidText(FieldValue(doc, e, "id").s)

\* the root entries of a document, as a set
RootEntries(doc) == {map_range(doc)[i] : i \in 1..Len(map_range(doc))}

\* the ChatMessage a complete root entry stands for
EntryMessage(doc, e) ==
    ChatMessage(parse_str(FieldValue(doc, e, "id").s), FieldValue(doc, e, "user_id").s,
                FieldValue(doc, e, "content").s, FieldValue(doc, e, "timestamp").n)

C12_NoPanic ==
    \A u \in Users : ~get_messages(users[u]).panicked

\* the changes user u's own actor committed in this step
Committed(u) ==
    {c \in Applied(users'[u].doc) \ Applied(users[u].doc) : c.actor = u}

\* the operations of c are the creation of a map under the root key of a
\* message id and the four field writes into that map
IsMessageChange(c) ==
    /\ Len(c.ops) = 5
    /\ c.ops[1].obj = ROOT /\ c.ops[1].action = "makeMap" /\ IsUuidText(c.ops[1].key)
    /\ \A i \in 2..5 : c.ops[i].obj = c.ops[1].id /\ c.ops[i].action = "set"
    /\ {c.ops[i].key : i \in 2..5} = FieldKeys
    /\ \E i \in 2..5 : c.ops[i].key = "id" /\ c.ops[i].value = StrValue(c.ops[1].key)

\* C13: an add_message call commits exactly one change, which creates the
\* map under the root key of the message id and writes all its fields, and
\* the NetworkMessage returned holds exactly that change; whatever has been
\* delivered in whatever order, a user's document holds all operations of
\* such a change or none, and every root entry has all four fields.
C13_OneChange ==
    [][/\ \A u \in Users : Committed(u) # {} =>
            /\ Cardinality(Committed(u)) = 1
            /\ Len(users'[u].doc.history) = Len(users[u].doc.history) + 1
            /\ \A c \in Committed(u) :
                /\ IsMessageChange(c)
                /\ NetworkMessage(<<c>>) \in net' \ net
                /\ Cardinality(net' \ net) = 1
       /\ \A u \in Users :
            /\ \A msg \in net' : \A c \in ChangesOf(msg) :
                    LET held == OpIds(c) \cap {o.id : o \in users'[u].doc.ops}
                    IN held = {} \/ held = OpIds(c)
            /\ \A e \in RootEntries(users'[u].doc) : ~Lacking(users'[u].doc, e)]_vars

\* a user has committed its second change and another user has applied it
C13_Witness ==
    \E u, v \in Users : \E msg \in net : \E c \in ChangesOf(msg) :
        /\ u # v
        /\ c.actor = u /\ c.seq = 2
        /\ c \in Applied(users[v].doc)

\* two changes that create a map under the same root key, neither having
\* seen the other
ConcurrentPair(c1, c2) ==
    /\ c1 # c2
    /\ c1.ops[1].obj = ROOT /\ c2.ops[1].obj = ROOT
    /\ c1.ops[1].key = c2.ops[1].key
    /\ c1.ops[1].id \notin c2.ops[1].pred
    /\ c2.ops[1].id \notin c1.ops[1].pred

\* c1 was applied before c2 in the document
AppliedBefore(doc, c1, c2) ==
    \E i, j \in 1..Len(doc.history) :
        i < j /\ doc.history[i] = c1 /\ doc.history[j] = c2

\* C14: no receive_message of a NetworkMessage on the network and no
\* receive_sync_message of main's sync exchange returns an error, whatever
\* the receiving document holds, also when the delivered change writes a
\* root key that the document holds a concurrent write for.
C14_NoError ==
    /\ \A u \in Users : \A msg \in net :
            receive_message_result(users[u], msg.changes) = "Ok"
    /\ sync.pc = "idle" =>
            \A a, b \in Users :
                \A g \in {generate_sync_message(users[a].doc, NewState)} :
                    g.some => receive_sync_message_result(users[b].doc, g.msg) = "Ok"
    /\ sync.pc = "loop" =>
            \A g1 \in {generate_sync_message(users[sync.b].doc, sync.sb)} :
                /\ g1.some => receive_sync_message_result(users[sync.a].doc, g1.msg) = "Ok"
                /\ \A r1 \in {deliver_sync(g1, users[sync.a].doc, sync.sa)} :
                   \A g2 \in {generate_sync_message(r1.doc, r1.state)} :
                        g2.some =>
                            receive_sync_message_result(users[sync.b].doc, g2.msg) = "Ok"

\* two users have applied the same two concurrent changes under one root key
\* in opposite orders, one of them by the sync loop
C14_Witness ==
    \E u, v \in Users : \E c1, c2 \in Applied(users[u].doc) \cap Applied(users[v].doc) :
        /\ ConcurrentPair(c1, c2)
        /\ AppliedBefore(users[u].doc, c1, c2)
        /\ AppliedBefore(users[v].doc, c2, c1)
        /\ Hash(c1) \in sync.moved

\* the changes applied to doc that create a map under root key k and that no
\* other such change applied to doc has among its causal ancestors
Tops(doc, k) ==
    {c \in Applied(doc) :
        /\ c.ops[1].obj = ROOT /\ c.ops[1].key = k
        /\ \A d \in Applied(doc) :
            (d # c /\ d.ops[1].obj = ROOT /\ d.ops[1].key = k)
                => Hash(c) \notin Ancestors(doc, d.deps)}

\* the change among S whose creating operation has the greatest counter, the
\* greatest actor among those of that counter
Greatest(S) ==
    CHOOSE c \in S : \A d \in S :
        \/ d.ops[1].id[1] < c.ops[1].id[1]
        \/ d.ops[1].id[1] = c.ops[1].id[1] /\ d.ops[1].id[2] <= c.ops[1].id[2]

\* C15: a user that has applied two or more causally independent changes
\* creating a map under one root key shows exactly one entry for that key,
\* and it is the whole message of the change whose put_object has the
\* greatest (counter, actor).
C15_Winner ==
    \A u \in Users : \A k \in RootKeys(users[u].doc) :
        Cardinality(Tops(users[u].doc, k)) >= 2 =>
            /\ Cardinality({i \in 1..Len(Messages(u)) :
                                to_string(Messages(u)[i].id) = k}) = 1
            /\ \A i \in 1..Len(Messages(u)) :
                    to_string(Messages(u)[i].id) = k =>
                        Messages(u)[i] = MessageOf(Greatest(Tops(users[u].doc, k)))

\* a user has applied two independent changes under one root key, and the
\* one with the greater counter is of the smaller actor
C15_Witness ==
    \E u \in Users : \E k \in RootKeys(users[u].doc) :
        \E c, d \in Tops(users[u].doc, k) :
            /\ c.ops[1].id[1] > d.ops[1].id[1]
            /\ c.ops[1].id[2] < d.ops[1].id[2]
            /\ MessageOf(c).content # MessageOf(d).content

\* the hashes of the applied changes that no applied change has as a dep
Frontier(doc) ==
    {Hash(c) : c \in {x \in Applied(doc) : \A d \in Applied(doc) : Hash(x) \notin d.deps}}

\* C16: the heads of every user's document are exactly the applied changes
\* that no applied change lists as a dep, after add_message, receive_message
\* and receive_sync_message alike; a step that only buffers changes leaves
\* the heads as they were.
C16_Heads ==
    [][\A u \in Users :
        /\ users'[u].doc.heads = Frontier(users'[u].doc)
        /\ Applied(users'[u].doc) = Applied(users[u].doc)
                => users'[u].doc.heads = users[u].doc.heads]_vars

\* a user holds a buffered change, and the head of a user is a change the
\* sync loop delivered, which has replaced its dep in the heads
C16_Witness ==
    \E u, v \in Users : \E h \in users[v].doc.heads :
        /\ users[u].doc.queue # {}
        /\ h \in sync.moved
        /\ get_change_by_hash(users[v].doc, h).deps # {}

\* the changes a document holds, applied or buffered
Held(doc) == Applied(doc) \cup doc.queue

\* C17: in every step a user's ChatUser changes only by its own add_message
\* or by changes handed to it; a step in which user w commits leaves every
\* other user's document, and so its get_messages, as it was; and whatever a
\* document gains is its own commit or a copy of a change that is on the
\* network or in another user's document.
C17_Frame ==
    [][\A u \in Users :
        /\ users'[u].id = users[u].id
        /\ users'[u] # users[u] => Committed(u) # {} \/ delivered'[u] # delivered[u]
        /\ (\E w \in Users \ {u} : Committed(w) # {})
                => users'[u] = users[u] /\ get_messages(users'[u]) = get_messages(users[u])
        /\ Held(users'[u].doc) \ Held(users[u].doc)
                \subseteq Committed(u)
                          \cup UNION {ChangesOf(msg) : msg \in net}
                          \cup UNION {Held(users[v].doc) : v \in Users \ {u}}]_vars

\* a user has committed a change that a second user has applied and a third
\* has not been handed
C17_Witness ==
    \E u, v, w \in Users : \E c \in Applied(users[u].doc) :
        /\ c.actor = u
        /\ c \in Applied(users[v].doc) /\ v # u
        /\ w # u /\ w # v /\ c \notin delivered[w] /\ users[w].doc = NewDoc

\* e is an edit: its author had applied a change under the same root key,
\* so that the author showed a message with that id
IsEdit(doc, e) ==
    \E d \in Applied(doc) :
        /\ d.ops[1].obj = ROOT /\ d.ops[1].key = e.ops[1].key
        /\ Hash(d) \in Ancestors(doc, e.deps)

\* the changes user u applied in this step, by its own add_message or by
\* delivery, when it is exactly one change and that an edit
AppliedEdit(u) ==
    {e \in Applied(users'[u].doc) \ Applied(users[u].doc) :
        /\ Applied(users'[u].doc) \ Applied(users[u].doc) = {e}
        /\ IsEdit(users'[u].doc, e)}

\* C18 as stated: get_messages never returns two entries with one id, and
\* when a user applies an edit (its own or a delivered one) the number of
\* entries stays the same and the one entry for the id carries the edit's
\* content.
C18_EditInPlace ==
    [][\A u \in Users :
       \A after \in {get_messages(users'[u]).messages} :
        /\ \A i, j \in 1..Len(after) : after[i].id = after[j].id => i = j
        /\ \A e \in AppliedEdit(u) :
                /\ Len(after) = Len(get_messages(users[u]).messages)
                /\ \E i \in 1..Len(after) :
                        /\ to_string(after[i].id) = e.ops[1].key
                        /\ after[i].content = MessageOf(e).content]_vars

\* C18 amended: get_messages never returns two entries with one id, and
\* when a user applies an edit the number of entries stays the same and
\* there is one entry for the id; it is the edit's message on the user that
\* made the edit, and on a user the edit was delivered to unless that user
\* has applied a causally independent change under the same id whose
\* put_object has a greater (counter, actor), whose message it then is.
C18_EditOrWinner ==
    [][\A u \in Users :
       \A after \in {get_messages(users'[u]).messages} :
        /\ \A i, j \in 1..Len(after) : after[i].id = after[j].id => i = j
        /\ \A e \in AppliedEdit(u) :
                /\ Len(after) = Len(get_messages(users[u]).messages)
                /\ \E i \in 1..Len(after) :
                        /\ to_string(after[i].id) = e.ops[1].key
                        /\ after[i] = MessageOf(Greatest(Tops(users'[u].doc, e.ops[1].key)))
                        /\ e.actor = u => after[i] = MessageOf(e)]_vars

\* a user shows the new content of a message whose edit was delivered to it,
\* beside a second message
C18_Witness ==
    \E u \in Users : \E e \in Applied(users[u].doc) : \E d \in Applied(users[u].doc) :
        /\ e.actor # u
        /\ d.ops[1].key = e.ops[1].key
        /\ Hash(d) \in e.deps
        /\ MessageOf(d).content # MessageOf(e).content
        /\ Len(Messages(u)) = 2
        /\ \E i \in 1..2 : Messages(u)[i] = MessageOf(e)

====
